---------------------------- MODULE Spec2Model ----------------------------
(***************************************************************************)
(* Model of phycontrib/template/gui.py: the template-subtraction routine,  *)
(* the array registry, the mask computation and the TemplateController     *)
(* (load-time validation, per-cluster queries, caches, similarity).        *)
(*                                                                         *)
(* A 2-D array is a sequence of rows, a row is a sequence over channels.   *)
(* Python indices are 0-based; sequences here are 1-based, so buffer index *)
(* i of the source is element i + 1 of the sequence.                       *)
(***************************************************************************)
EXTENDS Integers, Sequences, FiniteSets, TLC

VARIABLES
    sub_pc,          \* subtract_templates call: "idle", "called", "returned"
    arg_traces,      \* the `traces` argument, (n, n_channels)
    arg_offsets,     \* per spike: 2 * (spike_time - start) * sample_rate
    arg_amplitudes,  \* the `amplitudes` argument, one per spike
    arg_templates,   \* the `spike_templates` argument, one array per spike
    sub_result,      \* what the call produced
    filenames,       \* the registry: logical name -> [base, ext] of its file
    ra_pc,           \* read_array call: "idle", "called", "returned"
    ra_name,         \* the `name` argument
    ra_disk,         \* whether the named file can be loaded: "loads", "fails"
    ra_result,       \* what the call produced
    gm_pc,           \* get_masks call: "idle", "called", "returned"
    gm_templates,    \* the `templates` argument (n_templates, n_samples, n_channels)
    gm_result,       \* the table the call returned
    files,           \* the dataset on disk that the controller loads
    close,           \* get_close_clusters: cluster id -> list of (id, distance)
    phase,           \* "idle", "uninitialized", "loaded", "failed"
    ctl,             \* the controller's attributes (self) once loaded
    cache,           \* ctx.cache: <<operation, args>> -> stored result
    first,           \* history: <<operation, args>> -> first result, repeated
    ret,             \* the last query and what it gave
    budget           \* queries the run may still issue

subVars == <<sub_pc, arg_traces, arg_offsets, arg_amplitudes, arg_templates,
             sub_result>>

raVars == <<filenames, ra_pc, ra_name, ra_disk, ra_result>>

gmVars == <<gm_pc, gm_templates, gm_result>>

ctlVars == <<files, close, phase, ctl, cache, first, ret, budget>>

vars == <<subVars, raVars, gmVars, ctlVars>>

----------------------------------------------------------------------------
(* Bounds of the model. *)

MaxShort == 2        \* short trace buffers have 0 .. MaxShort rows
MaxOver == 1         \* long trace buffers have up to 61 + MaxOver rows
MaxExtra == 1        \* templates have 61 .. 61 + MaxExtra samples
MaxAmp == 2          \* spike amplitudes are 1 .. MaxAmp
NChannels == 2       \* channels of the trace buffer given to subtract_templates
MaxVal == 1          \* template samples given to get_masks are -1 .. MaxVal
MaxClusterId == 2    \* template (and cluster) ids are 0 .. MaxClusterId
MaxSpikes == 4       \* spikes of the dataset
NSimilar == 2        \* K: similar templates kept per template
NLocChan == 1        \* local channels kept per template in the sparse features
MaxFaults == 2       \* files of the dataset that may be malformed at once
MaxClose == 2        \* entries of a list returned by get_close_clusters
MaxQueries == 3      \* queries issued in one run

(* Constants of the program. *)

WinBefore == 20      \* i of `i, j = 20, 41`
WinAfter == 41       \* j of `i, j = 20, 41`
NFeaturesPerChannel == 3   \* self.n_features_per_channel = 3
FeaturesMaxSpikes == 1000      \* self._select_spikes(cluster_id, 1000)
AmplitudesMaxSpikes == 10000   \* self._select_spikes(cluster_id, 10000)

----------------------------------------------------------------------------
(* Helpers. *)

Min(a, b) == IF a < b THEN a ELSE b
Max(a, b) == IF a > b THEN a ELSE b

\* Python 3 round() of h / 2: ties go to the even integer.
RoundHalf(h) ==
    LET q == h \div 2
    IN  IF h % 2 = 0 THEN q
        ELSE IF q % 2 = 0 THEN q ELSE q + 1

\* x[a:] for a >= 0
SliceFrom(x, a) == SubSeq(x, Min(a, Len(x)) + 1, Len(x))

\* x[:-k] for k > 0
SliceDropLast(x, k) == SubSeq(x, 1, Max(Len(x) - k, 0))

\* The (first, last) 1-based rows that the Python slice [sa:sb] selects in a
\* buffer of n rows, for sa >= 0 and any integer sb (a negative sb counts
\* from the end).
SliceBounds(n, sa, sb) ==
    LET stop == IF sb < 0 THEN Max(sb + n, 0) ELSE Min(sb, n)
        startc == Min(sa, n)
    IN  <<startc + 1, stop>>

SliceLen(n, sa, sb) ==
    LET b == SliceBounds(n, sa, sb) IN Max(b[2] - b[1] + 1, 0)

\* w = spike_templates * amplitudes[:, np.newaxis, np.newaxis]
ScaleTemplates(spike_templates, amplitudes) ==
    [s \in 1..Len(spike_templates) |->
        [k \in 1..Len(spike_templates[s]) |->
            [c \in 1..Len(spike_templates[s][k]) |->
                spike_templates[s][k][c] * amplitudes[s]]]]

\* traces[sa:sb, :] -= x.  numpy accepts x when it has as many rows as the
\* slice, or exactly one row (broadcast); anything else raises ValueError.
SubtractSlice(tr, sa, sb, x) ==
    LET b == SliceBounds(Len(tr), sa, sb)
        m == SliceLen(Len(tr), sa, sb)
        p == Len(x)
    IN  IF p = m
        THEN [raised |-> FALSE,
              traces |-> [r \in 1..Len(tr) |->
                 IF r >= b[1] /\ r <= b[2]
                 THEN [c \in 1..Len(tr[r]) |-> tr[r][c] - x[r - b[1] + 1][c]]
                 ELSE tr[r]]]
        ELSE IF p = 1
        THEN [raised |-> FALSE,
              traces |-> [r \in 1..Len(tr) |->
                 IF r >= b[1] /\ r <= b[2]
                 THEN [c \in 1..Len(tr[r]) |-> tr[r][c] - x[1][c]]
                 ELSE tr[r]]]
        ELSE [raised |-> TRUE, traces |-> tr]

\* One iteration of the loop of subtract_templates, for the spike whose
\* doubled offset is h and whose scaled template is x0.
SubtractSpike(tr, h, x0) ==
    LET n == Len(tr)
        t == RoundHalf(h)
        sa0 == t - WinBefore
        sb0 == t + WinAfter
    IN  IF sa0 < 0
        THEN SubtractSlice(tr, 0, sb0, SliceFrom(x0, -sa0))
        ELSE IF sb0 > n
        THEN SubtractSlice(tr, sa0, n, SliceDropLast(x0, sb0 - n))
        ELSE SubtractSlice(tr, sa0, sb0, x0)

RECURSIVE SubtractLoop(_, _, _, _)
SubtractLoop(tr, offsets, w, index) ==
    IF index > Len(w) THEN [raised |-> FALSE, traces |-> tr]
    ELSE LET r == SubtractSpike(tr, offsets[index], w[index])
         IN  IF r.raised THEN r
             ELSE SubtractLoop(r.traces, offsets, w, index + 1)

\* subtract_templates(traces, start, spike_times, ..., sample_rate); the
\* argument offsets[s] stands for 2 * (spike_times[s] - start) * sample_rate.
subtract_templates(traces_, offsets, amplitudes, spike_templates) ==
    SubtractLoop(traces_, offsets, ScaleTemplates(spike_templates, amplitudes), 1)

----------------------------------------------------------------------------
(* The array registry. *)

\* The shipped registry: every file is a raw typed-array dump.  (The model
\* keeps three of the twelve entries.)
RegistryNames == {"amplitudes", "spike_clusters", "templates"}

BaseName(name) ==
    CASE name = "amplitudes" -> "amplitudes"
      [] name = "spike_clusters" -> "clusterIDs"
      [] name = "templates" -> "templates"

ShippedFilenames == [name \in RegistryNames |->
                        [base |-> BaseName(name), ext |-> ".npy"]]

\* read_array(name) with the registry reg and the state of the disk.
\* filenames[name] raises KeyError for a name that is not registered; a file
\* that cannot be loaded makes sio.loadmat / np.load raise; an extension that
\* is neither '.mat' nor '.npy' falls off the end of the function, which
\* returns None.
read_array(reg, name, disk) ==
    IF name \notin DOMAIN reg
    THEN [outcome |-> "raised", value |-> "KeyError"]
    ELSE LET fn == reg[name]
         IN  IF fn.ext = ".mat"
             THEN IF disk = "loads"
                  THEN [outcome |-> "returned", value |-> fn.base]
                  ELSE [outcome |-> "raised", value |-> "IOError"]
             ELSE IF fn.ext = ".npy"
             THEN IF disk = "loads"
                  THEN [outcome |-> "returned", value |-> fn.base]
                  ELSE [outcome |-> "raised", value |-> "IOError"]
             ELSE [outcome |-> "returned", value |-> "None"]

----------------------------------------------------------------------------
(* The mask model. *)

Abs(v) == IF v < 0 THEN 0 - v ELSE v

\* the largest element of a non-empty sequence
SeqMax(q) ==
    LET all == {q[i] : i \in 1..Len(q)}
    IN  CHOOSE v \in all : \A u \in all : u <= v

\* a / b as numpy computes it on floats: a quotient, except that a zero
\* divisor gives nan or inf (with a warning, not an exception).  A quotient
\* is kept as the fraction num / den; den = 0 stands for nan and inf.
Divide(a, b) == [num |-> a, den |-> b]

FracZero == [num |-> 0, den |-> 1]

\* m = np.abs(templates).max(axis=1)
ChannelPeaks(templates) ==
    [t \in 1..Len(templates) |->
        [c \in 1..Len(templates[t][1]) |->
            SeqMax([k \in 1..Len(templates[t]) |-> Abs(templates[t][k][c])])]]

\* mm = m.max(axis=1)
TemplatePeaks(m) == [t \in 1..Len(m) |-> SeqMax(m[t])]

get_masks_NoZeroing(templates) ==
    LET m == ChannelPeaks(templates)
        mm == TemplatePeaks(m)
    IN  [t \in 1..Len(m) |-> [c \in 1..Len(m[t]) |-> Divide(m[t][c], mm[t])]]

get_masks(templates) ==
    LET m == ChannelPeaks(templates)
        mm == TemplatePeaks(m)
        masks == [t \in 1..Len(m) |->
                    [c \in 1..Len(m[t]) |-> Divide(m[t][c], mm[t])]]
    IN  [t \in 1..Len(m) |->
            IF mm[t] = 0 THEN [c \in 1..Len(m[t]) |-> FracZero]
            ELSE masks[t]]

----------------------------------------------------------------------------
(* The dataset read by TemplateController._init_data.  An array on disk is  *)
(* a record with its shape and, where the controller reads the values, its  *)
(* data; the values of the large arrays are given by the operators below.   *)

NTemplates == MaxClusterId + 1
TemplateIds == 0..MaxClusterId
NSamplesT == WinBefore + WinAfter + MaxOver   \* samples of the raw recording

\* a.squeeze(): the axes of length 1 are dropped
Squeeze(shape) == SelectSeq(shape, LAMBDA d : d # 1)

\* a.T of an array given as a sequence of equally long rows
Transpose(a) ==
    IF Len(a) = 0 THEN <<>>
    ELSE [j \in 1..Len(a[1]) |-> [i \in 1..Len(a) |-> a[i][j]]]

ShapeOf2D(a) == IF Len(a) = 0 THEN <<0, 0>> ELSE <<Len(a), Len(a[1])>>

\* templates.npy after np.transpose(templates, (2, 1, 0)): template t
\* (0-based) as an array (n_samples, n_channels)
TemplateData(t, n_samples, n_channels) ==
    [k \in 1..n_samples |-> [c \in 1..n_channels |-> k + 100 * c + 1000 * t]]

\* the raw recording: (n_samples_t, n_channels_dat), constant on a channel
DatData(n_rows, n_cols) == [r \in 1..n_rows |-> [c \in 1..n_cols |-> 10 * c]]

\* pcFeatures.npy: value of spike s (0-based), feature k, local channel l
FeatureValue(s, k, l) == 100 * s + 10 * k + l

\* pcFeatureInds.npy: the global channel of local channel l of template t
FeatureChannel(l, t, n_channels) == (t + l) % n_channels

\* templateFeatures.npy: value of spike s (0-based) in slot j (0-based)
TemplateFeatureValue(s, j) == 10 * s + j

\* inverse of whiteningMatrix / 200, an upper bidiagonal integer matrix
WhiteningInverse(n) ==
    [i \in 1..n |-> [j \in 1..n |-> IF j = i \/ j = i + 1 THEN 1 ELSE 0]]

\* np.dot(templates, wmi) for one template
DotChannels(x, wmi) ==
    [k \in 1..Len(x) |->
        [c \in 1..Len(wmi) |->
            LET RECURSIVE Acc(_)
                Acc(i) == IF i = 0 THEN 0
                          ELSE Acc(i - 1) + x[k][i] * wmi[i][c]
            IN  Acc(Len(wmi))]]

RECURSIVE SortedSeq(_)
SortedSeq(S) ==
    IF S = {} THEN <<>>
    ELSE LET lo == CHOOSE v \in S : \A u \in S : v <= u
         IN  <<lo>> \o SortedSeq(S \ {lo})

Range(q) == {q[i] : i \in 1..Len(q)}

NonDecreasing_Unchecked(a) == TRUE

\* np.all(np.diff(a) >= 0)
NonDecreasing(a) == \A i \in 1..(Len(a) - 1) : a[i] <= a[i + 1]

\* the first check of the list that fails, "" when all pass
RECURSIVE FirstFailure(_)
FirstFailure(checks) ==
    IF Len(checks) = 0 THEN ""
    ELSE IF ~checks[1][1] THEN checks[1][2]
    ELSE FirstFailure(Tail(checks))

\* The checks of _init_data, in the order of the source.
LoadChecks(f) ==
    LET amp == Squeeze(f.amplitudes.shape)
        n_spikes == IF Len(amp) = 1 THEN amp[1] ELSE 0 - 1
        n_channels == f.templates.shape[2]
        n_templates == f.templates.shape[3]
        feat == f.features.shape
        n_loc_chan == IF Len(feat) = 3 THEN feat[3] ELSE 0 - 1
        tf == f.template_features.shape
        n_sim_tem == tf[2]
        tfi == Transpose(f.template_features_ind.data)
    IN  << <<Len(amp) = 1, "amplitudes: n_spikes, = amplitudes.shape">>,
           <<Squeeze(f.spike_clusters.shape) = <<n_spikes>>,
             "assert spike_clusters.shape == (n_spikes,)">>,
           <<Squeeze(f.spike_samples.shape) = <<n_spikes>>,
             "assert spike_samples.shape == (n_spikes,)">>,
           <<Squeeze(f.channel_mapping.shape) = <<n_channels>>,
             "assert channel_mapping.shape == (n_channels,)">>,
           <<f.channel_positions_x.shape = f.channel_positions_y.shape,
             "np.c_[channel_positions_x, channel_positions_y]">>,
           <<f.channel_positions_x.shape[1] = n_channels,
             "assert channel_positions.shape == (n_channels, 2)">>,
           <<NonDecreasing(f.spike_samples.data),
             "assert np.all(np.diff(self.spike_times) >= 0)">>,
           <<Len(feat) = 3, "assert all_features.ndim == 3">>,
           <<feat = <<n_spikes, NFeaturesPerChannel, n_loc_chan>>,
             "assert all_features.shape == (n_spikes, 3, n_loc_chan)">>,
           <<f.features_ind.shape = <<n_loc_chan, n_templates>>,
             "assert features_ind.shape == (n_loc_chan, n_templates)">>,
           <<tf = <<n_spikes, n_sim_tem>>,
             "assert template_features.shape == (n_spikes, n_sim_tem)">>,
           <<ShapeOf2D(tfi) = <<n_templates, n_sim_tem>>,
             "assert template_features_ind.shape == (n_templates, n_sim_tem)">>,
           <<~f.whitening_matrix.singular
                /\ f.whitening_matrix.shape = <<n_channels, n_channels>>,
             "np.linalg.inv / np.dot(self.templates, wmi)">> >>

\* self.cluster_groups = {c: None for c in range(n_clusters)}
ClusterGroups(cluster_ids) ==
    [c \in 0..(Len(cluster_ids) - 1) |-> "None"]

\* The attributes that _init_data leaves on self when every check passes.
LoadedAttributes(f) ==
    LET n_samples_templates == f.templates.shape[1]
        n_channels == f.templates.shape[2]
        n_templates == f.templates.shape[3]
        cluster_ids == SortedSeq(Range(f.spike_clusters.data))
    IN  [n_channels |-> n_channels,
         n_spikes |-> Squeeze(f.amplitudes.shape)[1],
         all_amplitudes |-> f.amplitudes.data,
         n_samples_templates |-> n_samples_templates,
         n_templates |-> n_templates,
         n_samples_t |-> f.dat.shape[1],
         spike_times |-> f.spike_samples.data,
         spike_clusters |-> f.spike_clusters.data,
         cluster_ids |-> cluster_ids,
         cluster_groups |-> ClusterGroups(cluster_ids),
         template_masks |->
            get_masks([t \in 1..n_templates |->
                TemplateData(t - 1, n_samples_templates, n_channels)]),
         n_features_per_channel |-> NFeaturesPerChannel,
         n_loc_chan |-> f.features.shape[3],
         template_features_ind |-> Transpose(f.template_features_ind.data),
         wmi |-> WhiteningInverse(n_channels)]

NoAttributes == [n_spikes |-> 0]

\* _init_data: [ok, error, self]
InitDataOutcome(f) ==
    LET failure == FirstFailure(LoadChecks(f))
    IN  IF failure = ""
        THEN [ok |-> TRUE, error |-> "", self |-> LoadedAttributes(f)]
        ELSE [ok |-> FALSE, error |-> failure, self |-> NoAttributes]

----------------------------------------------------------------------------
(* The queries of the controller.  Spike ids, cluster ids, channels and     *)
(* slots are 0-based as in the source; At reads a 0-based position.         *)

At(a, i) == a[i + 1]

Returned(v) == [outcome |-> "returned", value |-> v]
ReturnedNone == [outcome |-> "none", value |-> <<>>]
Raised(e) == [outcome |-> "raised", value |-> [error |-> e]]

\* the spikes of cluster c, ascending (self.spikes_per_cluster[c])
SpikesOf(self, c) ==
    SortedSeq({i \in 0..(Len(self.spike_clusters) - 1) :
                    At(self.spike_clusters, i) = c})

\* spikes[::step][:n_max]
StridedPrefix(spikes, step, n_max) ==
    LET n_kept == Min(n_max, (Len(spikes) + step - 1) \div step)
    IN  [i \in 1..n_kept |-> spikes[(i - 1) * step + 1]]

\* self._select_spikes(cluster_id, n_max): all the spikes of the cluster,
\* or a regular subset of at most n_max of them; n_max = 0 stands for None
SelectSpikes(self, c, n_max) ==
    LET spikes == SpikesOf(self, c)
    IN  IF n_max = 0 \/ Len(spikes) <= n_max THEN spikes
        ELSE StridedPrefix(spikes, (Len(spikes) + n_max - 1) \div n_max, n_max)

\* get_amplitudes(cluster_id) for one cluster id
get_amplitudes(self, c) ==
    LET spike_ids == SelectSpikes(self, c, AmplitudesMaxSpikes)
    IN  Returned(
          [spike_ids |-> spike_ids,
           spike_clusters |-> [i \in 1..Len(spike_ids) |-> c],
           x |-> [i \in 1..Len(spike_ids) |-> At(self.spike_times, spike_ids[i])],
           y |-> [i \in 1..Len(spike_ids) |->
                    At(self.all_amplitudes, spike_ids[i])]])

\* get_features(cluster_id) for one cluster id: the sparse block of every
\* selected spike scattered into the channels features_ind[:, cluster_id]
get_features(self, c) ==
    LET spike_ids == SelectSpikes(self, c, FeaturesMaxSpikes)
        ch == [l \in 1..self.n_loc_chan |->
                  FeatureChannel(l - 1, c, self.n_channels)]
        Local(g) == {l \in 1..self.n_loc_chan : ch[l] = g}
        LastLocal(g) == CHOOSE l \in Local(g) : \A m \in Local(g) : m <= l
    IN  Returned(
          [data |-> [i \in 1..Len(spike_ids) |->
                      [g \in 1..self.n_channels |->
                        [k \in 1..self.n_features_per_channel |->
                          IF Local(g - 1) = {} THEN 0
                          ELSE FeatureValue(spike_ids[i], k - 1,
                                            LastLocal(g - 1) - 1)]]],
           spike_ids |-> spike_ids,
           spike_clusters |-> [i \in 1..Len(spike_ids) |->
                                 At(self.spike_clusters, spike_ids[i])],
           masks |-> [i \in 1..Len(spike_ids) |->
                        At(self.template_masks,
                           At(self.spike_clusters, spike_ids[i]))]])

\* q.index(v) for v in q: the first 0-based position of v in q
IndexOf(q, v) ==
    CHOOSE i \in 0..(Len(q) - 1) :
        /\ At(q, i) = v
        /\ \A j \in 0..(i - 1) : At(q, j) # v

\* The test that makes get_template_features return None.
NotSimilar_Neither(cx, cy, sim_x, sim_y) ==
    cx \notin Range(sim_y) /\ cy \notin Range(sim_x)

NotSimilar(cx, cy, sim_x, sim_y) ==
    cx \notin Range(sim_y) \/ cy \notin Range(sim_x)

\* get_template_features(cluster_ids)
get_template_features(self, cluster_ids) ==
    IF Len(cluster_ids) < 2 THEN ReturnedNone
    ELSE LET cx == cluster_ids[1]
             cy == cluster_ids[2]
             sim_x == At(self.template_features_ind, cx)
             sim_y == At(self.template_features_ind, cy)
         IN  IF NotSimilar(cx, cy, sim_x, sim_y) THEN ReturnedNone
             ELSE IF cy \notin Range(sim_x) \/ cx \notin Range(sim_y)
             THEN Raised("ValueError")      \* list.index of a missing id
             ELSE LET sxy == IndexOf(sim_x, cy)
                      syx == IndexOf(sim_y, cx)
                      spikes_x == SelectSpikes(self, cx, 0)
                      spikes_y == SelectSpikes(self, cy, 0)
                      spike_ids == spikes_x \o spikes_y
                  IN  Returned(
                        [x |-> [i \in 1..Len(spikes_x) |->
                                   TemplateFeatureValue(spikes_x[i], 0)]
                               \o [i \in 1..Len(spikes_y) |->
                                   TemplateFeatureValue(spikes_y[i], syx)],
                         y |-> [i \in 1..Len(spikes_x) |->
                                   TemplateFeatureValue(spikes_x[i], sxy)]
                               \o [i \in 1..Len(spikes_y) |->
                                   TemplateFeatureValue(spikes_y[i], 0)],
                         spike_ids |-> spike_ids,
                         spike_clusters |->
                            [i \in 1..Len(spike_ids) |->
                                At(self.spike_clusters, spike_ids[i])]])

\* a.searchsorted(v): how many elements of the sorted a are below v
SearchSorted(a, v) == Cardinality({i \in 1..Len(a) : a[i] < v})

\* tr - np.mean(tr, axis=0); the recordings of the model are constant on a
\* channel, so that the mean is an integer
RemoveMean(tr) ==
    LET RECURSIVE ColumnSum(_, _)
        ColumnSum(c, r) == IF r = 0 THEN 0 ELSE ColumnSum(c, r - 1) + tr[r][c]
        n_cols == IF Len(tr) = 0 THEN 0 ELSE Len(tr[1])
        mean == [c \in 1..n_cols |-> ColumnSum(c, Len(tr)) \div Len(tr)]
    IN  [r \in 1..Len(tr) |-> [c \in 1..Len(tr[r]) |-> tr[r][c] - mean[c]]]

\* get_traces(interval), the interval given in samples
get_traces(self, interval) ==
    LET all_traces == DatData(self.n_samples_t, self.n_channels)
        lo == Min(interval[1], Len(all_traces))
        hi == Min(interval[2], Len(all_traces))
        tr == RemoveMean(SubSeq(all_traces, lo + 1, hi))
        a == SearchSorted(self.spike_times, interval[1])
        b == SearchSorted(self.spike_times, interval[2])
        sc == SubSeq(self.spike_clusters, a + 1, b)
        st == SubSeq(self.spike_times, a + 1, b)
        templates_unw ==
            [i \in 1..Len(sc) |->
                DotChannels(TemplateData(sc[i], self.n_samples_templates,
                                         self.n_channels), self.wmi)]
        sub == subtract_templates(
                  tr,
                  [i \in 1..Len(st) |-> 2 * (st[i] - interval[1])],
                  SubSeq(self.all_amplitudes, a + 1, b),
                  templates_unw)
    IN  IF sub.raised THEN Raised("ValueError")
        ELSE Returned([traces |-> tr, residual |-> sub.traces])

\* The entries of the close-clusters list that similarity keeps.
KeepClose_All(sim0, sim2) == sim2

KeepClose(sim0, sim2) ==
    SelectSeq(sim2, LAMBDA e : e[1] \notin Range(sim0))

\* The entries that similarity makes of the top-K row.
TopEntries_Descending(sim0) ==
    [i \in 1..Len(sim0) |-> <<sim0[i], 0 - i>>]

TopEntries(sim0) ==
    [i \in 1..Len(sim0) |-> <<sim0[i], (0 - Len(sim0)) + (i - 1)>>]

\* similarity(cluster_id), with sim2 the list get_close_clusters returns
similarity(self, sim2, c) ==
    LET sim0 == At(self.template_features_ind, c)
    IN  Returned(TopEntries(sim0) \o KeepClose(sim0, sim2))

----------------------------------------------------------------------------
(* Inputs of subtract_templates. *)

WinLen == WinBefore + WinAfter

BufferLengths == (0..MaxShort) \cup ((WinLen - 2)..(WinLen + MaxOver))
TemplateLengths == WinLen..(WinLen + MaxExtra)
Amplitudes == 1..MaxAmp

\* doubled offsets: every t from where the window ends before the buffer to
\* where it starts after it
Offsets(n) == (2 * (0 - WinAfter - 2))..(2 * (n + WinBefore + 2))

RawTrace(n) == [r \in 1..n |-> [c \in 1..NChannels |-> 7 * r + c]]
Template(len) == [k \in 1..len |-> [c \in 1..NChannels |-> k + 100 * c]]

NoResult == [raised |-> FALSE, traces |-> <<>>]

SubIdle ==
    /\ sub_pc = "idle"
    /\ arg_traces = <<>>
    /\ arg_offsets = <<>>
    /\ arg_amplitudes = <<>>
    /\ arg_templates = <<>>
    /\ sub_result = NoResult

(* Inputs of read_array. *)

Extensions == {".npy", ".mat", ".txt"}
RequestedNames == RegistryNames \cup {"waveforms"}
NoValue == [outcome |-> "none", value |-> "none"]

RaIdle ==
    /\ filenames = ShippedFilenames
    /\ ra_pc = "idle"
    /\ ra_name = "none"
    /\ ra_disk = "loads"
    /\ ra_result = NoValue

(* Inputs of get_masks. *)

MaskSamples == {1, 2}
MaskChannels == {1, 2}
MaskTemplates == {1, 2}
SampleValues == (0 - 1)..MaxVal
TemplateTensors ==
    [MaskTemplates -> [MaskSamples -> [MaskChannels -> SampleValues]]]

GmIdle ==
    /\ gm_pc = "idle"
    /\ gm_templates = <<>>
    /\ gm_result = <<>>

(* Inputs of the controller. *)

\* row t of template_features_ind of the reference dataset
CanonRow(t) == [j \in 1..NSimilar |-> (t + j - 1) % NTemplates]
CanonIndex == [t \in 1..NTemplates |-> CanonRow(t - 1)]

CanonClusters == [i \in 1..MaxSpikes |-> (i - 1) % NTemplates]

\* an assignment that uses the clusters 0 and 1 only
TwoClusters == [i \in 1..MaxSpikes |-> (i - 1) % 2]

CanonClose == [c \in TemplateIds |-> <<>>]

\* The reference dataset, with the given cluster assignment and the given
\* (n_templates, n_sim_tem) similar-template table.
Dataset(clusters, index) ==
    [dat |-> [shape |-> <<NSamplesT, NChannels>>],
     amplitudes |-> [shape |-> <<MaxSpikes, 1>>,
                     data |-> [i \in 1..MaxSpikes |-> i]],
     spike_clusters |-> [shape |-> <<Len(clusters), 1>>, data |-> clusters],
     spike_samples |-> [shape |-> <<MaxSpikes, 1>>,
                        data |-> [i \in 1..MaxSpikes |->
                                    WinBefore + 10 * (i - 1)]],
     templates |-> [shape |-> <<WinBefore + WinAfter, NChannels, NTemplates>>],
     channel_mapping |-> [shape |-> <<NChannels, 1>>],
     channel_positions_x |-> [shape |-> <<NChannels, 1>>],
     channel_positions_y |-> [shape |-> <<NChannels, 1>>],
     features |-> [shape |-> <<MaxSpikes, NFeaturesPerChannel, NLocChan>>],
     features_ind |-> [shape |-> <<NLocChan, NTemplates>>],
     template_features |-> [shape |-> <<MaxSpikes, NSimilar>>],
     template_features_ind |-> [data |-> Transpose(index)],
     whitening_matrix |-> [shape |-> <<NChannels, NChannels>>,
                           singular |-> FALSE]]

FaultNames ==
    {"amplitudes_2d", "spike_clusters_len", "spike_samples_len",
     "spike_samples_unsorted", "channel_mapping_len", "positions_x_len",
     "positions_y_len", "features_ndim", "features_rows", "features_nfpc",
     "features_ind_rows", "features_ind_cols", "template_features_rows",
     "template_features_ind_rows", "template_features_ind_cols",
     "whitening_singular"}

Reversed(q) == [i \in 1..Len(q) |-> q[Len(q) + 1 - i]]

\* the dataset f with one file malformed
WithFault(f, fault) ==
    CASE fault = "amplitudes_2d" ->
            [f EXCEPT !.amplitudes.shape = <<MaxSpikes, 2>>]
      [] fault = "spike_clusters_len" ->
            [f EXCEPT !.spike_clusters =
                [shape |-> <<Len(@.data) + 1, 1>>, data |-> Append(@.data, 0)]]
      [] fault = "spike_samples_len" ->
            [f EXCEPT !.spike_samples =
                [shape |-> <<Len(@.data) - 1, 1>>,
                 data |-> SubSeq(@.data, 1, Len(@.data) - 1)]]
      [] fault = "spike_samples_unsorted" ->
            [f EXCEPT !.spike_samples.data = Reversed(@)]
      [] fault = "channel_mapping_len" ->
            [f EXCEPT !.channel_mapping.shape = <<NChannels + 1, 1>>]
      [] fault = "positions_x_len" ->
            [f EXCEPT !.channel_positions_x.shape = <<NChannels + 1, 1>>]
      [] fault = "positions_y_len" ->
            [f EXCEPT !.channel_positions_y.shape = <<NChannels + 1, 1>>]
      [] fault = "features_ndim" ->
            [f EXCEPT !.features.shape = <<MaxSpikes, NFeaturesPerChannel>>]
      [] fault = "features_rows" ->
            [f EXCEPT !.features.shape[1] = MaxSpikes + 1]
      [] fault = "features_nfpc" ->
            [f EXCEPT !.features.shape[2] = NFeaturesPerChannel - 1]
      [] fault = "features_ind_rows" ->
            [f EXCEPT !.features_ind.shape[1] = NLocChan + 1]
      [] fault = "features_ind_cols" ->
            [f EXCEPT !.features_ind.shape[2] = NTemplates + 1]
      [] fault = "template_features_rows" ->
            [f EXCEPT !.template_features.shape[1] = MaxSpikes + 1]
      [] fault = "template_features_ind_rows" ->
            [f EXCEPT !.template_features_ind.data = Append(@, @[1])]
      [] fault = "template_features_ind_cols" ->
            [f EXCEPT !.template_features_ind.data =
                [i \in 1..Len(@) |-> Append(@[i], 0)]]
      [] fault = "whitening_singular" ->
            [f EXCEPT !.whitening_matrix.singular = TRUE]

RECURSIVE WithFaults(_, _)
WithFaults(f, faults) ==
    IF faults = {} THEN f
    ELSE LET one == CHOOSE x \in faults : TRUE
         IN  WithFaults(WithFault(f, one), faults \ {one})

FaultSets == {F \in SUBSET FaultNames : Cardinality(F) <= MaxFaults}

IndexRows == [1..NSimilar -> TemplateIds]

\* lists that get_close_clusters may return: (cluster id, distance) pairs
RECURSIVE SeqsUpTo(_, _)
SeqsUpTo(S, n) ==
    IF n = 0 THEN {<<>>}
    ELSE LET shorter == SeqsUpTo(S, n - 1)
         IN  shorter \cup {Append(q, x) : q \in shorter, x \in S}

CloseLists ==
    {[i \in 1..Len(ids) |-> <<ids[i], 10 + i>>] :
        ids \in SeqsUpTo(TemplateIds, MaxClose)}

\* argument lists of get_template_features
ClusterIdLists(cluster_ids) == SeqsUpTo(Range(cluster_ids), 2)

\* intervals of get_traces, in samples: the whole recording, a stretch
\* before the first spike, a short stretch that starts on a spike
Intervals ==
    {<<0, NSamplesT>>, <<0, WinBefore>>, <<WinBefore, WinBefore + 11>>}

NoQuery == [op |-> "none", args |-> <<>>, result |-> ReturnedNone]

CtlIdle ==
    /\ files = <<>>
    /\ close = <<>>
    /\ phase = "idle"
    /\ ctl = NoAttributes
    /\ cache = <<>>
    /\ first = <<>>
    /\ ret = NoQuery
    /\ budget = 0

----------------------------------------------------------------------------
(* subtract_templates called on one buffer with one spike. *)

SubInit ==
    /\ sub_pc = "called"
    /\ \E n \in BufferLengths : arg_traces = RawTrace(n)
    /\ \E h \in Offsets(Len(arg_traces)) : arg_offsets = <<h>>
    /\ \E a \in Amplitudes : arg_amplitudes = <<a>>
    /\ \E len \in TemplateLengths : arg_templates = <<Template(len)>>
    /\ sub_result = NoResult
    /\ RaIdle
    /\ GmIdle
    /\ CtlIdle

SubtractTemplates ==
    /\ sub_pc = "called"
    /\ sub_result' = subtract_templates(arg_traces, arg_offsets,
                                        arg_amplitudes, arg_templates)
    /\ sub_pc' = "returned"
    /\ UNCHANGED <<arg_traces, arg_offsets, arg_amplitudes, arg_templates>>
    /\ UNCHANGED <<raVars, gmVars, ctlVars>>

SubNext == SubtractTemplates

SpecSubtract == SubInit /\ [][SubNext]_vars

----------------------------------------------------------------------------
(* read_array called with a registry whose files may have been renamed. *)

RaInit ==
    /\ \E exts \in [RegistryNames -> Extensions] :
          filenames = [name \in RegistryNames |->
                          [base |-> BaseName(name), ext |-> exts[name]]]
    /\ ra_pc = "called"
    /\ ra_name \in RequestedNames
    /\ ra_disk \in {"loads", "fails"}
    /\ ra_result = NoValue
    /\ SubIdle
    /\ GmIdle
    /\ CtlIdle

ReadArray ==
    /\ ra_pc = "called"
    /\ ra_result' = read_array(filenames, ra_name, ra_disk)
    /\ ra_pc' = "returned"
    /\ UNCHANGED <<filenames, ra_name, ra_disk>>
    /\ UNCHANGED <<subVars, gmVars, ctlVars>>

RaNext == ReadArray

SpecReadArray == RaInit /\ [][RaNext]_vars

----------------------------------------------------------------------------
(* get_masks called on a template tensor. *)

GmInit ==
    /\ gm_pc = "called"
    /\ gm_templates \in TemplateTensors
    /\ gm_result = <<>>
    /\ SubIdle
    /\ RaIdle
    /\ CtlIdle

GetMasks ==
    /\ gm_pc = "called"
    /\ gm_result' = get_masks(gm_templates)
    /\ gm_pc' = "returned"
    /\ UNCHANGED gm_templates
    /\ UNCHANGED <<subVars, raVars, ctlVars>>

GmNext == GetMasks

SpecMasks == GmInit /\ [][GmNext]_vars

----------------------------------------------------------------------------
(* The controller: construction, then queries. *)

CtlStart(f, cl, n_queries) ==
    /\ files = f
    /\ close = cl
    /\ phase = "uninitialized"
    /\ ctl = NoAttributes
    /\ cache = <<>>
    /\ first = <<>>
    /\ ret = NoQuery
    /\ budget = n_queries
    /\ SubIdle
    /\ RaIdle
    /\ GmIdle

\* TemplateController(dat_path, **kwargs): __init__ runs _init_data and
\* _init_context; an exception in _init_data leaves no controller.
InitData ==
    /\ phase = "uninitialized"
    /\ LET o == InitDataOutcome(files)
       IN  /\ phase' = IF o.ok THEN "loaded" ELSE "failed"
           /\ ctl' = o.self
    /\ cache' = <<>>
    /\ UNCHANGED <<files, close, first, ret, budget>>
    /\ UNCHANGED <<subVars, raVars, gmVars>>

\* a query is issued on a constructed controller
Serving == phase = "loaded" /\ budget > 0

\* history of a query: its first result and whether it was issued again
Remember(key, result) ==
    IF key \in DOMAIN first
    THEN [first EXCEPT ![key].repeated = TRUE]
    ELSE (key :> [result |-> result, repeated |-> FALSE]) @@ first

\* a call through ctx.cache: the stored result when there is one, else the
\* computed result, which is stored unless the call raised
Cached_DropsOnNone(key, computed) ==
    IF key \in DOMAIN cache
    THEN [result |-> cache[key], store |-> cache]
    ELSE [result |-> computed,
          store |-> IF computed.outcome = "returned"
                    THEN (key :> computed) @@ cache
                    ELSE <<>>]

Cached(key, computed) ==
    IF key \in DOMAIN cache
    THEN [result |-> cache[key], store |-> cache]
    ELSE [result |-> computed,
          store |-> IF computed.outcome = "raised" THEN cache
                    ELSE (key :> computed) @@ cache]

GetFeatures ==
    /\ Serving
    /\ \E c \in Range(ctl.cluster_ids) :
          LET key == <<"get_features", <<c>>>>
              result == get_features(ctl, c)
          IN  /\ ret' = [op |-> key[1], args |-> key[2], result |-> result]
              /\ first' = Remember(key, result)
    /\ budget' = budget - 1
    /\ UNCHANGED <<files, close, phase, ctl, cache>>
    /\ UNCHANGED <<subVars, raVars, gmVars>>

GetAmplitudes ==
    /\ Serving
    /\ \E c \in Range(ctl.cluster_ids) :
          LET key == <<"get_amplitudes", <<c>>>>
              call == Cached(key, get_amplitudes(ctl, c))
          IN  /\ ret' = [op |-> key[1], args |-> key[2], result |-> call.result]
              /\ cache' = call.store
              /\ first' = Remember(key, call.result)
    /\ budget' = budget - 1
    /\ UNCHANGED <<files, close, phase, ctl>>
    /\ UNCHANGED <<subVars, raVars, gmVars>>

GetTemplateFeatures ==
    /\ Serving
    /\ \E ids \in ClusterIdLists(ctl.cluster_ids) :
          LET key == <<"get_template_features", ids>>
              call == Cached(key, get_template_features(ctl, ids))
          IN  /\ ret' = [op |-> key[1], args |-> key[2], result |-> call.result]
              /\ cache' = call.store
    /\ budget' = budget - 1
    /\ UNCHANGED <<files, close, phase, ctl, first>>
    /\ UNCHANGED <<subVars, raVars, gmVars>>

GetTraces ==
    /\ Serving
    /\ \E interval \in Intervals :
          ret' = [op |-> "get_traces", args |-> interval,
                  result |-> get_traces(ctl, interval)]
    /\ budget' = budget - 1
    /\ UNCHANGED <<files, close, phase, ctl, cache, first>>
    /\ UNCHANGED <<subVars, raVars, gmVars>>

Similarity ==
    /\ Serving
    /\ \E c \in Range(ctl.cluster_ids) :
          ret' = [op |-> "similarity", args |-> <<c>>,
                  result |-> similarity(ctl, close[c], c)]
    /\ budget' = budget - 1
    /\ UNCHANGED <<files, close, phase, ctl, cache, first>>
    /\ UNCHANGED <<subVars, raVars, gmVars>>

CtlNext ==
    \/ InitData
    \/ GetFeatures
    \/ GetAmplitudes
    \/ GetTemplateFeatures
    \/ GetTraces
    \/ Similarity

\* the reference dataset with two clusters, queried MaxQueries times
Init == CtlStart(Dataset(TwoClusters, CanonIndex), CanonClose, MaxQueries)

Spec == Init /\ [][CtlNext]_vars

\* a dataset with up to MaxFaults malformed files, or a well-formed one
\* with any cluster assignment
LoadInit ==
    \/ \E F \in FaultSets :
          CtlStart(WithFaults(Dataset(CanonClusters, CanonIndex), F),
                   CanonClose, 1)
    \/ \E clusters \in [1..MaxSpikes -> TemplateIds] :
          CtlStart(Dataset(clusters, CanonIndex), CanonClose, 1)

SpecLoad == LoadInit /\ [][CtlNext]_vars

\* a well-formed dataset in which the similar-template rows of templates 0
\* and 1 are arbitrary
PairsInit ==
    \E ra \in IndexRows, rb \in IndexRows :
        CtlStart(Dataset(CanonClusters,
                         [[CanonIndex EXCEPT ![1] = ra] EXCEPT ![2] = rb]),
                 CanonClose, 1)

SpecPairs == PairsInit /\ [][CtlNext]_vars

\* a well-formed dataset in which the similar-template row of template 0
\* and the list of the clusters close to cluster 0 are arbitrary
SimilarityInit ==
    \E row \in IndexRows, list \in CloseLists :
        CtlStart(Dataset(CanonClusters, [CanonIndex EXCEPT ![1] = row]),
                 [CanonClose EXCEPT ![0] = list], 1)

SpecSimilarity == SimilarityInit /\ [][CtlNext]_vars

----------------------------------------------------------------------------
(* Properties of subtract_templates (one spike per call). *)

SpikeSample == RoundHalf(arg_offsets[1])
BufferLen == Len(arg_traces)
TemplateLen == Len(arg_templates[1])

\* rows of [t-20, t+41) that lie in [0, n)
OverlapLen ==
    Max(0, Min(BufferLen, SpikeSample + WinAfter)
            - Max(0, SpikeSample - WinBefore))

ModifiedRows ==
    {r \in 1..BufferLen : sub_result.traces[r] # arg_traces[r]}

WindowOverhangs ==
    \/ SpikeSample - WinBefore < 0
    \/ SpikeSample + WinAfter > BufferLen

\* C1: a spike whose window [t-20, t+41) extends before index 0 or past
\* index n (or both) is clipped without raising, and the number of modified
\* buffer rows equals the overlap of the window with [0, n).  Stated for
\* templates of exactly 61 samples.
C1_ClipWithoutRaising ==
    (sub_pc = "returned" /\ TemplateLen = WinLen /\ WindowOverhangs)
        => /\ ~sub_result.raised
           /\ Cardinality(ModifiedRows) = OverlapLen

\* The expected residual: template sample k on buffer index t - 20 + k.
ExpectedResidual ==
    [r \in 1..BufferLen |->
        [c \in 1..NChannels |->
            LET k == (r - 1) - (SpikeSample - WinBefore)
            IN  IF k >= 0 /\ k < WinLen
                THEN arg_traces[r][c]
                        - arg_amplitudes[1] * arg_templates[1][k + 1][c]
                ELSE arg_traces[r][c]]]

\* C2: for one spike with amplitude a, a template of at least 61 samples and
\* a sample offset t inside the buffer, the residual is the raw trace minus
\* a times the template with template sample 20 on buffer index t, and the
\* raw trace everywhere else.
C2_ResidualIsRawMinusTemplate ==
    (/\ sub_pc = "returned"
     /\ TemplateLen >= WinLen
     /\ SpikeSample >= 0
     /\ SpikeSample < BufferLen)
        => /\ ~sub_result.raised
           /\ sub_result.traces = ExpectedResidual

----------------------------------------------------------------------------
(* Properties of read_array. *)

Supported(ext) == ext \in {".mat", ".npy"}

\* C8: read_array(name) ends in an error, never in a returned value, when
\* name is not registered and when the registered file's extension is
\* neither supported kind; it returns an array only for a registered name
\* with a supported extension whose file loads.
C8_ReadArrayErrors ==
    ra_pc = "returned" =>
        /\ ra_name \notin DOMAIN filenames => ra_result.outcome = "raised"
        /\ (ra_name \in DOMAIN filenames
              /\ ~Supported(filenames[ra_name].ext))
                => ra_result.outcome = "raised"
        /\ ra_result.outcome = "returned"
                => /\ ra_name \in DOMAIN filenames
                   /\ Supported(filenames[ra_name].ext)
                   /\ ra_disk = "loads"

----------------------------------------------------------------------------
(* Properties of get_masks. *)

InUnitInterval(f) == f.den > 0 /\ 0 <= f.num /\ f.num <= f.den

\* the largest absolute sample of template t, over all samples and channels
GlobalPeak(t) ==
    LET all == {Abs(gm_templates[t][k][c]) :
                    k \in MaskSamples, c \in MaskChannels}
    IN  CHOOSE v \in all : \A u \in all : u <= v

\* the largest absolute sample of template t on channel c
ChannelPeak(t, c) ==
    LET all == {Abs(gm_templates[t][k][c]) : k \in MaskSamples}
    IN  CHOOSE v \in all : \A u \in all : u <= v

\* C9: get_masks returns a table whose every entry lies in [0, 1] (the
\* channel's peak absolute value over the template's global peak), and the
\* row of a template whose global peak is exactly zero is all zeros.
C9_MasksInUnitInterval ==
    gm_pc = "returned" =>
        \A t \in MaskTemplates : \A c \in MaskChannels :
            /\ InUnitInterval(gm_result[t][c])
            /\ GlobalPeak(t) = 0 => gm_result[t][c].num = 0
            /\ GlobalPeak(t) > 0 =>
                  gm_result[t][c].num * GlobalPeak(t)
                      = ChannelPeak(t, c) * gm_result[t][c].den

\* C9 witness: a returned table with an all-zero template beside a template
\* that has a peak on one channel and a silent channel.
C9_Witness ==
    /\ gm_pc = "returned"
    /\ \E t \in MaskTemplates : GlobalPeak(t) = 0
    /\ \E t \in MaskTemplates : \E c \in MaskChannels :
          /\ GlobalPeak(t) > 0
          /\ ChannelPeak(t, c) = 0

----------------------------------------------------------------------------
(* Properties of the controller. *)

IndexTable == Transpose(files.template_features_ind.data)
IndexRow(c) == IndexTable[c + 1]
SpikeCount(c) ==
    Cardinality({i \in 1..Len(files.spike_clusters.data) :
                    files.spike_clusters.data[i] = c})

PairQuery == ret.op = "get_template_features" /\ Len(ret.args) >= 2
PairA == ret.args[1]
PairB == ret.args[2]
AInRowOfB == PairA \in Range(IndexRow(PairB))
BInRowOfA == PairB \in Range(IndexRow(PairA))

BundleShaped ==
    /\ ret.result.outcome = "returned"
    /\ Len(ret.result.value.x) = Len(ret.result.value.y)
    /\ Len(ret.result.value.spike_ids) = SpikeCount(PairA) + SpikeCount(PairB)

\* C3 as stated: get_template_features([a, b, ...]) returns None exactly
\* when a is not in b's top-K list and b is not in a's; in every other case
\* it returns a bundle with equally long x and y and |spikes(a)| +
\* |spikes(b)| spike ids.  With fewer than two ids it returns None.
C3_NoneOnlyWhenNeitherListed ==
    /\ (ret.op = "get_template_features" /\ Len(ret.args) < 2)
          => ret.result.outcome = "none"
    /\ PairQuery =>
          /\ ret.result.outcome = "none" <=> (~AInRowOfB /\ ~BInRowOfA)
          /\ (AInRowOfB \/ BInRowOfA) => BundleShaped

\* C3 amended: get_template_features([a, b, ...]) returns None exactly when
\* a is not in b's top-K list or b is not in a's; when each is in the
\* other's list it returns a bundle with equally long x and y and
\* |spikes(a)| + |spikes(b)| spike ids.  With fewer than two ids it returns
\* None.
C3_NoneUnlessMutuallyListed ==
    /\ (ret.op = "get_template_features" /\ Len(ret.args) < 2)
          => ret.result.outcome = "none"
    /\ PairQuery =>
          /\ ret.result.outcome = "none" <=> (~AInRowOfB \/ ~BInRowOfA)
          /\ (AInRowOfB /\ BInRowOfA) => BundleShaped

\* C3 witness: a bundle returned for two different, mutually listed clusters
C3_Witness ==
    /\ PairQuery
    /\ PairA # PairB
    /\ AInRowOfB /\ BInRowOfA
    /\ ret.result.outcome = "returned"
    /\ Len(ret.result.value.spike_ids) > 1

NoRepeat(q) == \A i, j \in 1..Len(q) : i # j => q[i] # q[j]
Ids(entries) == [i \in 1..Len(entries) |-> entries[i][1]]

SimilarityQuery == ret.op = "similarity"
QueriedRow == IndexRow(ret.args[1])
QueriedClose == close[ret.args[1]]

\* C4 as stated: whatever the top-K row of c and whatever list the
\* close-clusters collaborator returns, similarity(c) contains no cluster id
\* more than once.
C4_NoDuplicateIds ==
    SimilarityQuery => NoRepeat(Ids(ret.result.value))

\* C4 amended: when the top-K row of c holds no id twice and the list the
\* close-clusters collaborator returns holds no id twice, similarity(c)
\* contains no cluster id more than once.
C4_NoDuplicateIdsOfDistinctInputs ==
    (/\ SimilarityQuery
     /\ NoRepeat(QueriedRow)
     /\ NoRepeat(Ids(QueriedClose)))
        => NoRepeat(Ids(ret.result.value))

\* C4 witness: the collaborator lists an id of the row and an id outside it
C4_Witness ==
    /\ SimilarityQuery
    /\ NoRepeat(QueriedRow)
    /\ NoRepeat(Ids(QueriedClose))
    /\ \E e \in Range(QueriedClose) : e[1] \in Range(QueriedRow)
    /\ \E e \in Range(QueriedClose) : e[1] \notin Range(QueriedRow)

\* q is p with some elements left out, the others in their order
RECURSIVE IsSubsequence(_, _)
IsSubsequence(q, p) ==
    IF Len(q) = 0 THEN TRUE
    ELSE IF Len(p) = 0 THEN FALSE
    ELSE IF q[1] = p[1] THEN IsSubsequence(Tail(q), Tail(p))
    ELSE IsSubsequence(q, Tail(p))

\* C5: in similarity(c) the K entries of the top-K row come first, in the
\* row's order, with the scores -K, -K+1, ..., -1 (strictly increasing), and
\* the collaborator's entries follow in their original relative order.
C5_TopKFirstThenClose ==
    SimilarityQuery =>
        LET v == ret.result.value
            K == Len(QueriedRow)
        IN  /\ Len(v) >= K
            /\ \A i \in 1..K : v[i] = <<QueriedRow[i], i - 1 - K>>
            /\ \A i \in 1..(K - 1) : v[i][2] < v[i + 1][2]
            /\ IsSubsequence(SubSeq(v, K + 1, Len(v)), QueriedClose)

\* C5 witness: two collaborator entries follow the K entries of the row
C5_Witness ==
    /\ SimilarityQuery
    /\ Len(ret.result.value) >= Len(QueriedRow) + 2
    /\ ret.result.value[Len(ret.result.value)][1]
          # ret.result.value[Len(ret.result.value) - 1][1]

PerClusterQuery == ret.op \in {"get_features", "get_amplitudes"}
RetKey == <<ret.op, ret.args>>

WellFormed(f) ==
    LET n_spikes == f.amplitudes.shape[1]
        n_channels == f.templates.shape[2]
        n_templates == f.templates.shape[3]
        samples == f.spike_samples.data
    IN  /\ f.amplitudes.shape = <<n_spikes, 1>>
        /\ f.spike_clusters.shape = <<n_spikes, 1>>
        /\ f.spike_samples.shape = <<n_spikes, 1>>
        /\ \A i, j \in 1..Len(samples) : i < j => samples[i] <= samples[j]
        /\ f.channel_mapping.shape = <<n_channels, 1>>
        /\ f.channel_positions_x.shape = <<n_channels, 1>>
        /\ f.channel_positions_y.shape = <<n_channels, 1>>
        /\ Len(f.features.shape) = 3
        /\ f.features.shape[1] = n_spikes
        /\ f.features.shape[2] = NFeaturesPerChannel
        /\ f.features_ind.shape = <<f.features.shape[3], n_templates>>
        /\ f.template_features.shape[1] = n_spikes
        /\ Len(f.template_features_ind.data) = f.template_features.shape[2]
        /\ \A i \in 1..Len(f.template_features_ind.data) :
              Len(f.template_features_ind.data[i]) = n_templates

\* C7: the controller is loaded, and a query is served, only when every
\* load-time validation passed: a dataset that fails a cross-array shape
\* check or whose spike times decrease never gets a loaded controller and
\* never has a query served; no query is served before the load.
C7_ServesOnlyValidatedData ==
    /\ phase = "loaded" => WellFormed(files)
    /\ ret.op # "none" => (phase = "loaded" /\ WellFormed(files))
    /\ budget < 1 => phase = "loaded"

\* C7 witness: the load of a dataset whose only defect is a decreasing
\* spike time has failed
C7_Witness ==
    /\ phase = "failed"
    /\ \E i \in 1..(Len(files.spike_samples.data) - 1) :
          files.spike_samples.data[i] > files.spike_samples.data[i + 1]
    /\ WellFormed([files EXCEPT !.spike_samples.data = Reversed(@)])

\* C10: after the load the cluster ids are exactly the values of the
\* spike-to-cluster assignment, and the group-label map holds an unset label
\* for each of them.
C10_EveryClusterHasUnsetGroup ==
    phase = "loaded" =>
        /\ Range(ctl.cluster_ids) = Range(files.spike_clusters.data)
        /\ \A c \in Range(files.spike_clusters.data) :
              /\ c \in DOMAIN ctl.cluster_groups
              /\ ctl.cluster_groups[c] = "None"

============================================================================
